---- MODULE Spec2Model ----
(***************************************************************************)
(* Model of the Defira connector                                           *)
(* (gateway/src/connectors/defira/defira.ts).                              *)
(*                                                                         *)
(* The components are modelled each with its own specification:            *)
(*   SpecTrade / SpecFee : Defira.executeTrade, as a set of logically      *)
(*       concurrent calls that interleave at their await points            *)
(*       (getNonce, contract submission, commitNonce).                     *)
(*   SpecRegistry / SpecFactory : Defira.getInstance, Defira.init,         *)
(*       Defira.factory and the Harmony chain client they consult.         *)
(*   SpecSlippage : Defira.getAllowedSlippage over every configured        *)
(*       default and override, by itself and inside its callers.           *)
(*   SpecEstimate : Defira.estimateSellTrade and estimateBuyTrade over a   *)
(*       pool whose reserves move.                                         *)
(*   SpecConnector : every operation of one instance, interleaved.         *)
(*                                                                         *)
(* JavaScript values:  undefined / absent is the empty sequence None, a    *)
(* present value v is Some(v) = <<v>>.  A JS number is a fraction          *)
(* <<num, den>>.  A decimal or hex string that denotes an integer is       *)
(* modelled by that integer.  Text that is parsed (slippage strings) is a  *)
(* sequence of one-character strings.  An error thrown by executeTrade is  *)
(* a string naming it; one thrown by an estimate is a record of its name   *)
(* and the parts of its message.                                           *)
(***************************************************************************)
EXTENDS Integers, Sequences, FiniteSets, TLC

None == <<>>
Some(v) == <<v>>

(***************************************************************************)
(* Bounds of the model.                                                    *)
(***************************************************************************)
\* number of executeTrade calls that may be in flight together
MaxCalls == 2
\* the NonceCoordinator's next nonce of a wallet starts in 0..MaxInitialNonce
MaxInitialNonce == 0
\* number of factory() calls that may be in flight together
MaxFactoryCalls == 2

Calls == 1..MaxCalls
FactoryCalls == 1..MaxFactoryCalls

Wallets == {"0xA", "0xB"}

VARIABLES
    \* ---- executeTrade ----
    pc,              \* call -> "idle" | "getNonce" | "submit" | "commit" | "done" | "failed"
    args,            \* call -> None | Some(arguments of the call)
    nonce,           \* call -> the local variable nonce: None | Some(n)
    tx,              \* call -> the local variable tx: None | Some(handle)
    outcome,         \* call -> what the caller sees
    getNonceCalls,   \* call -> the calls it made to nonceManager.getNonce
    contractCalls,   \* call -> the calls it made to contract[methodName]
    commitCalls,     \* call -> the calls it made to nonceManager.commitNonce
    acquired,        \* the calls, in the order their getNonce returned
    nextNonce,       \* NonceCoordinator: wallet address -> next unused nonce
    allowedSlippageConfig, \* DefiraConfig.config.allowedSlippage()
    \* ---- registry, init, factory ----
    _instances,      \* Defira._instances: None (undefined) | Some(key -> instance id)
    instance,        \* instance id -> the fields of that Defira object
    returned,        \* <<chain, network>> -> the instance ids getInstance returned
    harmony,         \* network -> the Harmony client of that network
    lastInit,        \* the latest init() call and how it ended
    fpc,             \* factory call -> "idle" | "await" | "done" | "failed"
    fself,           \* factory call -> the instance it runs on (0 while idle)
    fresult,         \* factory call -> None | Some(address returned)
    routerQueries,   \* instance id -> number of routerContract.factory() queries
    \* ---- slippage resolution and the two estimates ----
    slippageCall,    \* the latest getAllowedSlippage call: None | Some(call)
    reserves,        \* the pool contract's getReserves(): <<reserve0, reserve1>>
    epc,             \* estimate method -> "idle" | "fetch" | "done" | "failed"
    eargs,           \* estimate method -> None | Some(arguments of the call)
    fetched,         \* estimate method -> the pairs fetchPairData gave the call
    tradeSearches,   \* estimate method -> the best-trade searches of the call
    slippageReads,   \* estimate method -> the getAllowedSlippage calls of the call
    eoutcome         \* estimate method -> what the caller sees

tradeVars == <<pc, args, nonce, tx, outcome, getNonceCalls, contractCalls,
               commitCalls, acquired, nextNonce, allowedSlippageConfig>>
registryVars == <<_instances, instance, returned, harmony, lastInit,
                  fpc, fself, fresult, routerQueries>>
quoteVars == <<slippageCall, reserves, epc, eargs, fetched, tradeSearches,
               slippageReads, eoutcome>>
vars == <<tradeVars, registryVars, quoteVars>>

(***************************************************************************)
(* Text and numbers.                                                       *)
(***************************************************************************)
Digits == {"0", "1", "2", "3", "4", "5", "6", "7", "8", "9"}

IsDigits(s) == Len(s) > 0 /\ \A i \in 1..Len(s) : s[i] \in Digits

DigitValue(ch) ==
    CASE ch = "0" -> 0 [] ch = "1" -> 1 [] ch = "2" -> 2 [] ch = "3" -> 3
      [] ch = "4" -> 4 [] ch = "5" -> 5 [] ch = "6" -> 6 [] ch = "7" -> 7
      [] ch = "8" -> 8 [] ch = "9" -> 9

\* JSBI.BigInt(s) of a string of decimal digits
RECURSIVE BigInt(_)
BigInt(s) ==
    IF Len(s) = 0 THEN 0
    ELSE 10 * BigInt(SubSeq(s, 1, Len(s) - 1)) + DigitValue(s[Len(s)])

\* String.prototype.split(sep) for a one-character separator
RECURSIVE split(_, _)
split(s, sep) ==
    IF \E i \in 1..Len(s) : s[i] = sep
    THEN LET i == CHOOSE k \in 1..Len(s) :
                      s[k] = sep /\ \A j \in 1..(k - 1) : s[j] # sep
         IN  <<SubSeq(s, 1, i - 1)>> \o split(SubSeq(s, i + 1, Len(s)), sep)
    ELSE <<s>>

\* Number.prototype.toFixed(0) of a non-negative number below 10^21: the
\* nearest integer, the larger one of two equally near, as a digit string.
toFixed0(x) ==
    (x[1] \div x[2]) + (IF 2 * (x[1] % x[2]) >= x[2] THEN 1 ELSE 0)

\* the factor of `gasPrice * 1e9`
GweiToWei == 1000000000

(***************************************************************************)
(* Slippage resolution.                                                    *)
(***************************************************************************)
\* services/validators isFractionString: the fraction pattern "N/D"
isFractionString(str) ==
    LET parts == split(str, "/")
    IN  Len(parts) = 2 /\ IsDigits(parts[1]) /\ IsDigits(parts[2])

\* String.prototype.match(percentRegexp): None, or Some(<<group 1, group 2>>).
\* The percent pattern captures the whole part and the fractional part of
\* a text of the form "W.F%".
matchPercentRegexp(str) ==
    IF Len(str) > 0 /\ str[Len(str)] = "%"
    THEN LET parts == split(SubSeq(str, 1, Len(str) - 1), ".")
         IN  IF Len(parts) = 2 /\ IsDigits(parts[1]) /\ IsDigits(parts[2])
             THEN Some(<<parts[1], parts[2]>>)
             ELSE None
    ELSE None

\* new UniswapPercent(numerator, denominator)
UniswapPercent(n, d) == [numerator |-> BigInt(n), denominator |-> BigInt(d)]

MalformedSlippageError ==
    "Encountered a malformed percent string in the config for ALLOWED_SLIPPAGE."

\* getAllowedSlippage that reads the configured default before it looks at
\* the override
getAllowedSlippage_configFirst(allowedSlippageStr, config) ==
    LET nd == matchPercentRegexp(config)
    IN  IF nd = None
        THEN [ok |-> FALSE, value |-> None, error |-> MalformedSlippageError]
        ELSE IF allowedSlippageStr # None /\ isFractionString(allowedSlippageStr[1])
        THEN LET fractionSplit == split(allowedSlippageStr[1], "/")
             IN  [ok |-> TRUE,
                  value |-> Some(UniswapPercent(fractionSplit[1], fractionSplit[2])),
                  error |-> ""]
        ELSE [ok |-> TRUE,
              value |-> Some(UniswapPercent(nd[1][1], nd[1][2])),
              error |-> ""]

\* getAllowedSlippage that falls back to a zero tolerance when the configured
\* default is malformed
getAllowedSlippage_zeroOnMalformed(allowedSlippageStr, config) ==
    IF allowedSlippageStr # None /\ isFractionString(allowedSlippageStr[1])
    THEN LET fractionSplit == split(allowedSlippageStr[1], "/")
         IN  [ok |-> TRUE,
              value |-> Some(UniswapPercent(fractionSplit[1], fractionSplit[2])),
              error |-> ""]
    ELSE LET nd == matchPercentRegexp(config)
         IN  IF nd # None
             THEN [ok |-> TRUE,
                   value |-> Some(UniswapPercent(nd[1][1], nd[1][2])),
                   error |-> ""]
             ELSE [ok |-> TRUE,
                   value |-> Some(UniswapPercent(<<"0">>, <<"1">>)),
                   error |-> ""]

\* Defira.getAllowedSlippage; config is DefiraConfig.config.allowedSlippage()
getAllowedSlippage(allowedSlippageStr, config) ==
    IF allowedSlippageStr # None /\ isFractionString(allowedSlippageStr[1])
    THEN LET fractionSplit == split(allowedSlippageStr[1], "/")
         IN  [ok |-> TRUE,
              value |-> Some(UniswapPercent(fractionSplit[1], fractionSplit[2])),
              error |-> ""]
    ELSE LET nd == matchPercentRegexp(config)
         IN  IF nd # None
             THEN [ok |-> TRUE,
                   value |-> Some(UniswapPercent(nd[1][1], nd[1][2])),
                   error |-> ""]
             ELSE [ok |-> FALSE, value |-> None, error |-> MalformedSlippageError]

(***************************************************************************)
(* Trade math of the exchange library.                                     *)
(***************************************************************************)
\* the swap fee of a pool: 997 / 1000 of the input takes part in the swap
FeeNumerator == 997
FeeDenominator == 1000

\* Trade.minimumAmountOut(slippageTolerance): the output of an exact-output
\* trade; of an exact-input trade outputAmount / (1 + tolerance), rounded
\* down.  The quotient divides by zero when the tolerance is 0/0.
minimumAmountOut(trade, tolerance) ==
    IF trade.tradeType = "EXACT_OUTPUT"
    THEN [ok |-> TRUE, amount |-> trade.outputAmount]
    ELSE IF tolerance.denominator + tolerance.numerator = 0
    THEN [ok |-> FALSE, amount |-> 0]
    ELSE [ok |-> TRUE,
          amount |-> (tolerance.denominator * trade.outputAmount)
                         \div (tolerance.denominator + tolerance.numerator)]

\* Trade.maximumAmountIn(slippageTolerance): the input of an exact-input
\* trade; of an exact-output trade inputAmount * (1 + tolerance), rounded
\* down.  The quotient divides by zero when the tolerance's denominator is 0.
maximumAmountIn(trade, tolerance) ==
    IF trade.tradeType = "EXACT_INPUT"
    THEN [ok |-> TRUE, amount |-> trade.inputAmount]
    ELSE IF tolerance.denominator = 0
    THEN [ok |-> FALSE, amount |-> 0]
    ELSE [ok |-> TRUE,
          amount |-> ((tolerance.denominator + tolerance.numerator)
                          * trade.inputAmount) \div tolerance.denominator]

(***************************************************************************)
(* Collaborators of executeTrade.                                          *)
(***************************************************************************)
\* UniswapRouter.swapCallParameters(trade, {ttl, recipient, allowedSlippage}):
\* the method, its positional arguments and the native value to attach.  It
\* rejects a ttl that is not positive, and computes both slippage-adjusted
\* amounts of the trade.
swapCallParameters(trade, options) ==
    LET amountIn == maximumAmountIn(trade, options.allowedSlippage)
        amountOut == minimumAmountOut(trade, options.allowedSlippage)
    IN  IF options.ttl <= 0
        THEN [ok |-> FALSE, error |-> "Invariant failed: TTL"]
        ELSE IF ~amountIn.ok \/ ~amountOut.ok
        THEN [ok |-> FALSE, error |-> "Division by zero"]
        ELSE [ok |-> TRUE,
              error |-> "",
              methodName |->
                  IF trade.tradeType = "EXACT_INPUT"
                  THEN (IF trade.etherIn THEN "swapExactETHForTokens"
                                         ELSE "swapExactTokensForTokens")
                  ELSE (IF trade.etherIn THEN "swapETHForExactTokens"
                                         ELSE "swapTokensForExactTokens"),
              args |-> <<amountIn.amount, amountOut.amount,
                         options.recipient, options.ttl>>,
              value |-> IF trade.etherIn THEN amountIn.amount ELSE 0]

\* NonceCoordinator.getNonce(address): the next unused nonce of the address
getNonce(nn, address) == nn[address]

\* NonceCoordinator.commitNonce(address, n): n is consumed, the next lease
\* starts above it
commitNonce(nn, address, n) == [nn EXCEPT ![address] = n + 1]

(***************************************************************************)
(* Defira.executeTrade.                                                    *)
(***************************************************************************)
NoOutcome == [kind |-> "pending", tx |-> None, error |-> ""]
Returned(t) == [kind |-> "returned", tx |-> Some(t), error |-> ""]
Threw(e) == [kind |-> "threw", tx |-> None, error |-> e]

\* lines 314-318: the call parameters derived from the arguments
swapParameters(a, config) ==
    LET slippage == getAllowedSlippage(a.allowedSlippage, config)
    IN  IF ~slippage.ok
        THEN [ok |-> FALSE, error |-> slippage.error]
        ELSE swapCallParameters(a.trade,
                 [ttl |-> a.ttl, recipient |-> a.wallet,
                  allowedSlippage |-> slippage.value[1]])

\* txOptions with the gas price set under both fee strategies
txOptions_gasPriceAlways(a, result, n) ==
    IF a.maxFeePerGas # None \/ a.maxPriorityFeePerGas # None
    THEN [gasPrice |-> toFixed0(<<a.gasPrice[1] * GweiToWei, a.gasPrice[2]>>),
          gasLimit |-> toFixed0(a.gasLimit),
          value |-> result.value,
          nonce |-> n,
          maxFeePerGas |-> a.maxFeePerGas,
          maxPriorityFeePerGas |-> a.maxPriorityFeePerGas]
    ELSE [gasPrice |-> toFixed0(<<a.gasPrice[1] * GweiToWei, a.gasPrice[2]>>),
          gasLimit |-> toFixed0(a.gasLimit),
          value |-> result.value,
          nonce |-> n]

\* lines 325-340: the transaction options handed to the contract method
txOptions(a, result, n) ==
    IF a.maxFeePerGas # None \/ a.maxPriorityFeePerGas # None
    THEN [gasLimit |-> toFixed0(a.gasLimit),
          value |-> result.value,
          nonce |-> n,
          maxFeePerGas |-> a.maxFeePerGas,
          maxPriorityFeePerGas |-> a.maxPriorityFeePerGas]
    ELSE [gasPrice |-> toFixed0(<<a.gasPrice[1] * GweiToWei, a.gasPrice[2]>>),
          gasLimit |-> toFixed0(a.gasLimit),
          value |-> result.value,
          nonce |-> n]

\* executeTrade that asks for the nonce before it derives the call parameters
ExecuteTradeCall_nonceFirst(c, a) ==
    /\ pc[c] = "idle"
    /\ args' = [args EXCEPT ![c] = Some(a)]
    /\ LET result == swapParameters(a, allowedSlippageConfig)
       IN  IF ~result.ok
           THEN /\ pc' = [pc EXCEPT ![c] = "failed"]
                /\ outcome' = [outcome EXCEPT ![c] = Threw(result.error)]
                /\ getNonceCalls' = [getNonceCalls EXCEPT ![c] =
                       IF a.nonce # None THEN @
                       ELSE Append(@, [address |-> a.wallet, ok |-> TRUE,
                                       returned |-> getNonce(nextNonce, a.wallet),
                                       error |-> ""])]
                /\ UNCHANGED nonce
           ELSE IF a.nonce = None
           THEN /\ pc' = [pc EXCEPT ![c] = "getNonce"]
                /\ UNCHANGED <<nonce, outcome, getNonceCalls>>
           ELSE /\ pc' = [pc EXCEPT ![c] = "submit"]
                /\ nonce' = [nonce EXCEPT ![c] = a.nonce]
                /\ UNCHANGED <<outcome, getNonceCalls>>
    /\ UNCHANGED <<tx, contractCalls, commitCalls, acquired,
                   nextNonce, allowedSlippageConfig>>
    /\ UNCHANGED <<registryVars, quoteVars>>

\* executeTrade that tests `!nonce`: the explicit nonce 0 counts as absent
ExecuteTradeCall_falsyNonce(c, a) ==
    /\ pc[c] = "idle"
    /\ args' = [args EXCEPT ![c] = Some(a)]
    /\ LET result == swapParameters(a, allowedSlippageConfig)
       IN  IF ~result.ok
           THEN /\ pc' = [pc EXCEPT ![c] = "failed"]
                /\ outcome' = [outcome EXCEPT ![c] = Threw(result.error)]
                /\ UNCHANGED nonce
           ELSE IF a.nonce = None \/ a.nonce = Some(0)
           THEN /\ pc' = [pc EXCEPT ![c] = "getNonce"]
                /\ UNCHANGED <<nonce, outcome>>
           ELSE /\ pc' = [pc EXCEPT ![c] = "submit"]
                /\ nonce' = [nonce EXCEPT ![c] = a.nonce]
                /\ UNCHANGED outcome
    /\ UNCHANGED <<tx, getNonceCalls, contractCalls, commitCalls, acquired,
                   nextNonce, allowedSlippageConfig>>
    /\ UNCHANGED <<registryVars, quoteVars>>

\* lines 301-323: the call runs up to its first await, or throws before it
ExecuteTradeCall(c, a) ==
    /\ pc[c] = "idle"
    /\ args' = [args EXCEPT ![c] = Some(a)]
    /\ LET result == swapParameters(a, allowedSlippageConfig)
       IN  IF ~result.ok
           THEN /\ pc' = [pc EXCEPT ![c] = "failed"]
                /\ outcome' = [outcome EXCEPT ![c] = Threw(result.error)]
                /\ UNCHANGED nonce
           ELSE IF a.nonce = None
           THEN /\ pc' = [pc EXCEPT ![c] = "getNonce"]
                /\ UNCHANGED <<nonce, outcome>>
           ELSE /\ pc' = [pc EXCEPT ![c] = "submit"]
                /\ nonce' = [nonce EXCEPT ![c] = a.nonce]
                /\ UNCHANGED outcome
    /\ UNCHANGED <<tx, getNonceCalls, contractCalls, commitCalls, acquired,
                   nextNonce, allowedSlippageConfig>>
    /\ UNCHANGED <<registryVars, quoteVars>>

\* GetNonceResolve with the nonce after the returned one taken for the call
GetNonceResolve_skips(c) ==
    /\ pc[c] = "getNonce"
    /\ LET address == args[c][1].wallet
           n == getNonce(nextNonce, address)
       IN  /\ getNonceCalls' = [getNonceCalls EXCEPT ![c] =
                  Append(@, [address |-> address, ok |-> TRUE,
                             returned |-> n, error |-> ""])]
           /\ nonce' = [nonce EXCEPT ![c] = Some(n + 1)]
    /\ acquired' = Append(acquired, c)
    /\ pc' = [pc EXCEPT ![c] = "submit"]
    /\ UNCHANGED <<args, tx, outcome, contractCalls, commitCalls, nextNonce,
                   allowedSlippageConfig>>
    /\ UNCHANGED <<registryVars, quoteVars>>

\* line 322: nonceManager.getNonce(wallet.address) resolves
GetNonceResolve(c) ==
    /\ pc[c] = "getNonce"
    /\ LET address == args[c][1].wallet
           n == getNonce(nextNonce, address)
       IN  /\ getNonceCalls' = [getNonceCalls EXCEPT ![c] =
                  Append(@, [address |-> address, ok |-> TRUE,
                             returned |-> n, error |-> ""])]
           /\ nonce' = [nonce EXCEPT ![c] = Some(n)]
    /\ acquired' = Append(acquired, c)
    /\ pc' = [pc EXCEPT ![c] = "submit"]
    /\ UNCHANGED <<args, tx, outcome, contractCalls, commitCalls, nextNonce,
                   allowedSlippageConfig>>
    /\ UNCHANGED <<registryVars, quoteVars>>

\* line 322: nonceManager.getNonce(wallet.address) rejects
GetNonceReject(c, e) ==
    /\ pc[c] = "getNonce"
    /\ getNonceCalls' = [getNonceCalls EXCEPT ![c] =
           Append(@, [address |-> args[c][1].wallet, ok |-> FALSE,
                      returned |-> 0, error |-> e])]
    /\ outcome' = [outcome EXCEPT ![c] = Threw(e)]
    /\ pc' = [pc EXCEPT ![c] = "failed"]
    /\ UNCHANGED <<args, nonce, tx, contractCalls, commitCalls, acquired,
                   nextNonce, allowedSlippageConfig>>
    /\ UNCHANGED <<registryVars, quoteVars>>

\* SubmitReject with the nonce committed although the submission failed
SubmitReject_commits(c, e) ==
    /\ pc[c] = "submit"
    /\ LET a == args[c][1]
           result == swapParameters(a, allowedSlippageConfig)
           options == txOptions(a, result, nonce[c][1])
       IN  contractCalls' = [contractCalls EXCEPT ![c] =
               Append(@, [methodName |-> result.methodName,
                          args |-> result.args,
                          options |-> options,
                          ok |-> FALSE, error |-> e])]
    /\ commitCalls' = [commitCalls EXCEPT ![c] =
           Append(@, [address |-> args[c][1].wallet, nonce |-> nonce[c][1],
                      ok |-> TRUE])]
    /\ nextNonce' = commitNonce(nextNonce, args[c][1].wallet, nonce[c][1])
    /\ outcome' = [outcome EXCEPT ![c] = Threw(e)]
    /\ pc' = [pc EXCEPT ![c] = "failed"]
    /\ UNCHANGED <<args, nonce, tx, getNonceCalls, acquired,
                   allowedSlippageConfig>>
    /\ UNCHANGED <<registryVars, quoteVars>>

\* CommitNonceResolve with the nonce after the used one committed
CommitNonceResolve_offByOne(c) ==
    /\ pc[c] = "commit"
    /\ LET address == args[c][1].wallet
           n == nonce[c][1] + 1
       IN  /\ commitCalls' = [commitCalls EXCEPT ![c] =
                  Append(@, [address |-> address, nonce |-> n, ok |-> TRUE])]
           /\ nextNonce' = commitNonce(nextNonce, address, n)
    /\ outcome' = [outcome EXCEPT ![c] = Returned(tx[c][1])]
    /\ pc' = [pc EXCEPT ![c] = "done"]
    /\ UNCHANGED <<args, nonce, tx, getNonceCalls, contractCalls, acquired,
                   allowedSlippageConfig>>
    /\ UNCHANGED <<registryVars, quoteVars>>

\* the handle the contract returns for a transaction it accepted
ContractTransaction(c, a, options) ==
    [from |-> a.wallet, nonce |-> options.nonce, call |-> c]

\* lines 324-342: contract[result.methodName](...result.args, options) resolves
SubmitResolve(c) ==
    /\ pc[c] = "submit"
    /\ LET a == args[c][1]
           result == swapParameters(a, allowedSlippageConfig)
           options == txOptions(a, result, nonce[c][1])
       IN  /\ contractCalls' = [contractCalls EXCEPT ![c] =
                  Append(@, [methodName |-> result.methodName,
                             args |-> result.args,
                             options |-> options,
                             ok |-> TRUE, error |-> ""])]
           /\ tx' = [tx EXCEPT ![c] = Some(ContractTransaction(c, a, options))]
    /\ pc' = [pc EXCEPT ![c] = "commit"]
    /\ UNCHANGED <<args, nonce, outcome, getNonceCalls, commitCalls, acquired,
                   nextNonce, allowedSlippageConfig>>
    /\ UNCHANGED <<registryVars, quoteVars>>

\* lines 324-340: the contract call rejects; the error is not caught
SubmitReject(c, e) ==
    /\ pc[c] = "submit"
    /\ LET a == args[c][1]
           result == swapParameters(a, allowedSlippageConfig)
           options == txOptions(a, result, nonce[c][1])
       IN  contractCalls' = [contractCalls EXCEPT ![c] =
               Append(@, [methodName |-> result.methodName,
                          args |-> result.args,
                          options |-> options,
                          ok |-> FALSE, error |-> e])]
    /\ outcome' = [outcome EXCEPT ![c] = Threw(e)]
    /\ pc' = [pc EXCEPT ![c] = "failed"]
    /\ UNCHANGED <<args, nonce, tx, getNonceCalls, commitCalls, acquired,
                   nextNonce, allowedSlippageConfig>>
    /\ UNCHANGED <<registryVars, quoteVars>>

\* lines 343-344: nonceManager.commitNonce(wallet.address, nonce) resolves,
\* and the call returns tx
CommitNonceResolve(c) ==
    /\ pc[c] = "commit"
    /\ LET address == args[c][1].wallet
           n == nonce[c][1]
       IN  /\ commitCalls' = [commitCalls EXCEPT ![c] =
                  Append(@, [address |-> address, nonce |-> n, ok |-> TRUE])]
           /\ nextNonce' = commitNonce(nextNonce, address, n)
    /\ outcome' = [outcome EXCEPT ![c] = Returned(tx[c][1])]
    /\ pc' = [pc EXCEPT ![c] = "done"]
    /\ UNCHANGED <<args, nonce, tx, getNonceCalls, contractCalls, acquired,
                   allowedSlippageConfig>>
    /\ UNCHANGED <<registryVars, quoteVars>>

\* line 343: nonceManager.commitNonce rejects; the error is not caught
CommitNonceReject(c, e) ==
    /\ pc[c] = "commit"
    /\ commitCalls' = [commitCalls EXCEPT ![c] =
           Append(@, [address |-> args[c][1].wallet, nonce |-> nonce[c][1],
                      ok |-> FALSE])]
    /\ outcome' = [outcome EXCEPT ![c] = Threw(e)]
    /\ pc' = [pc EXCEPT ![c] = "failed"]
    /\ UNCHANGED <<args, nonce, tx, getNonceCalls, contractCalls, acquired,
                   nextNonce, allowedSlippageConfig>>
    /\ UNCHANGED <<registryVars, quoteVars>>

(***************************************************************************)
(* Inputs of executeTrade.                                                 *)
(***************************************************************************)
Trades ==
    {[tradeType |-> "EXACT_INPUT", etherIn |-> FALSE,
      inputAmount |-> 5, outputAmount |-> 9],
     [tradeType |-> "EXACT_INPUT", etherIn |-> TRUE,
      inputAmount |-> 7, outputAmount |-> 3],
     [tradeType |-> "EXACT_OUTPUT", etherIn |-> TRUE,
      inputAmount |-> 8, outputAmount |-> 4]}

\* a configured default that matches the percent pattern, and one that does not
SlippageConfigs == {<<"1", ".", "5", "%">>, <<"1", "5">>}

SubmitErrors == {"NETWORK_ERROR", "UNPREDICTABLE_GAS_LIMIT"}
NonceErrors == {"NonceManagerError"}

\* the calls whose interleavings are explored: two wallets, with and without
\* an explicit nonce, one fee strategy
ArgsTrade ==
    [wallet : Wallets,
     trade : {[tradeType |-> "EXACT_INPUT", etherIn |-> FALSE,
               inputAmount |-> 5, outputAmount |-> 9]},
     gasPrice : {<<1, 1>>},
     ttl : {60},
     gasLimit : {<<300000, 1>>},
     nonce : {None, Some(2)},
     maxFeePerGas : {None},
     maxPriorityFeePerGas : {None},
     allowedSlippage : {None}]

\* the calls whose options are explored: every fee strategy, whole and
\* fractional gas prices and gas limits, every kind of slippage override
ArgsFee ==
    [wallet : {"0xA"},
     trade : Trades,
     gasPrice : {<<0, 1>>, <<1, 1>>, <<1, 2>>, <<1, 3>>, <<2, 3>>},
     ttl : {0, 60},
     gasLimit : {<<300000, 1>>, <<300001, 2>>},
     nonce : {None, Some(0)},
     maxFeePerGas : {None, Some(30)},
     maxPriorityFeePerGas : {None, Some(2)},
     allowedSlippage : {None, Some(<<"1", "/", "2">>), Some(<<"1", "/", "0">>),
                        Some(<<"a", "/", "2">>)}]

(***************************************************************************)
(* The registry: Defira.getInstance and the constructor.                   *)
(***************************************************************************)
\* the (chain, network) pairs getInstance is called with; the first and the
\* last concatenate to the same key
InstanceArgs ==
    {<<"harmony", "testnet">>, <<"harmony", "estnet">>, <<"harmonyt", "estnet">>}

Networks == {"testnet", "estnet"}

\* DefiraConfig.config.routerAddress(network)
routerAddress(network) == "router-" \o network

\* lines 69-79: the fields of a newly constructed Defira
Defira(chain, network) ==
    [_chain |-> chain,
     harmony |-> network,
     chainId |-> harmony[network].chainId,
     _router |-> routerAddress(network),
     _factory |-> None,
     tokenList |-> <<>>,
     _ready |-> FALSE]

Instances == 1..Len(instance)

\* a JS object with one more (or one replaced) property
WithProperty(obj, key, v) ==
    [k \in (DOMAIN obj) \cup {key} |-> IF k = key THEN v ELSE obj[k]]

\* getInstance without the membership test: a new instance on every call
GetInstance_alwaysConstructs(chain, network) ==
    LET key == chain \o network
        map == IF _instances = None THEN <<>> ELSE _instances[1]
        id == Len(instance) + 1
    IN  /\ _instances' = Some(WithProperty(map, key, id))
        /\ instance' = Append(instance, Defira(chain, network))
        /\ routerQueries' = Append(routerQueries, 0)
        /\ returned' = [returned EXCEPT ![<<chain, network>>] = @ \cup {id}]
        /\ UNCHANGED <<harmony, lastInit, fpc, fself, fresult>>
        /\ UNCHANGED <<tradeVars, quoteVars>>

\* lines 81-90
GetInstance(chain, network) ==
    LET key == chain \o network
        map == IF _instances = None THEN <<>> ELSE _instances[1]
        fresh == ~(key \in DOMAIN map)
        id == IF fresh THEN Len(instance) + 1 ELSE map[key]
    IN  /\ _instances' = Some(IF fresh THEN WithProperty(map, key, id) ELSE map)
        /\ instance' = IF fresh THEN Append(instance, Defira(chain, network))
                                ELSE instance
        /\ routerQueries' = IF fresh THEN Append(routerQueries, 0)
                                     ELSE routerQueries
        /\ returned' = [returned EXCEPT ![<<chain, network>>] = @ \cup {id}]
        /\ UNCHANGED <<harmony, lastInit, fpc, fself, fresult>>
        /\ UNCHANGED <<tradeVars, quoteVars>>

(***************************************************************************)
(* The Harmony chain client of a network.                                  *)
(***************************************************************************)
\* the token metadata a client holds once it has loaded its token list; the
\* testnet list names one address twice
TokensOf(network) ==
    IF network = "testnet"
    THEN <<[address |-> "0xT1", decimals |-> 18, symbol |-> "WONE", name |-> "Wrapped ONE"],
           [address |-> "0xT2", decimals |-> 6, symbol |-> "USDC", name |-> "USD Coin"],
           [address |-> "0xT1", decimals |-> 18, symbol |-> "WONE2", name |-> "Wrapped ONE"]>>
    ELSE <<[address |-> "0xT3", decimals |-> 6, symbol |-> "USDT", name |-> "Tether"]>>

\* the client loads its stored token list
HarmonyLoadTokens(network) ==
    /\ ~harmony[network].ready
    /\ harmony[network].storedTokenList = <<>>
    /\ harmony' = [harmony EXCEPT ![network].storedTokenList = TokensOf(network)]
    /\ UNCHANGED <<_instances, instance, returned, lastInit, fpc, fself,
                   fresult, routerQueries>>
    /\ UNCHANGED <<tradeVars, quoteVars>>

\* the client reports ready once its tokens are loaded
HarmonyReady(network) ==
    /\ ~harmony[network].ready
    /\ harmony[network].storedTokenList # <<>>
    /\ harmony' = [harmony EXCEPT ![network].ready = TRUE]
    /\ UNCHANGED <<_instances, instance, returned, lastInit, fpc, fself,
                   fresult, routerQueries>>
    /\ UNCHANGED <<tradeVars, quoteVars>>

(***************************************************************************)
(* Defira.init and Defira.ready.                                           *)
(***************************************************************************)
InitializationError ==
    [name |-> "InitializationError",
     message |-> "SERVICE_UNITIALIZED_ERROR_MESSAGE(HMY)",
     errorCode |-> "SERVICE_UNITIALIZED_ERROR_CODE"]

\* new UniswapToken(chainId, address, decimals, symbol, name)
UniswapToken(chainId, address, decimals, symbol, name) ==
    [chainId |-> chainId, address |-> address, decimals |-> decimals,
     symbol |-> symbol, name |-> name]

\* lines 108-116: the token list after the loop over the first n stored tokens
RECURSIVE tokenListAfter(_, _, _, _)
tokenListAfter(tokenList, chainId, stored, n) ==
    IF n = 0 THEN tokenList
    ELSE LET token == stored[n]
         IN  WithProperty(tokenListAfter(tokenList, chainId, stored, n - 1),
                 token.address,
                 UniswapToken(chainId, token.address, token.decimals,
                              token.symbol, token.name))

\* init() that marks the instance ready before it asks the client
InitCall_readyBeforeCheck(i) ==
    /\ i \in Instances
    /\ LET self == instance[i]
           client == harmony[self.harmony]
       IN  IF self._chain = "harmony" /\ ~client.ready
           THEN /\ lastInit' = [self |-> i, clientReady |-> client.ready,
                                threw |-> Some(InitializationError),
                                parity |-> 1 - lastInit.parity]
                /\ instance' = [instance EXCEPT ![i]._ready = TRUE]
           ELSE /\ instance' = [instance EXCEPT
                       ![i].tokenList = tokenListAfter(self.tokenList,
                            self.chainId, client.storedTokenList,
                            Len(client.storedTokenList)),
                       ![i]._ready = TRUE]
                /\ lastInit' = [self |-> i, clientReady |-> client.ready,
                                threw |-> None,
                                parity |-> 1 - lastInit.parity]
    /\ UNCHANGED <<_instances, returned, harmony, fpc, fself, fresult,
                   routerQueries>>
    /\ UNCHANGED <<tradeVars, quoteVars>>

\* lines 102-118; lastInit records the call: the instance, what the client's
\* ready() answered, the error thrown if any, and the parity of the number of
\* init() calls made so far
InitCall(i) ==
    /\ i \in Instances
    /\ LET self == instance[i]
           client == harmony[self.harmony]
       IN  IF self._chain = "harmony" /\ ~client.ready
           THEN /\ lastInit' = [self |-> i, clientReady |-> client.ready,
                                threw |-> Some(InitializationError),
                                parity |-> 1 - lastInit.parity]
                /\ UNCHANGED instance
           ELSE /\ instance' = [instance EXCEPT
                       ![i].tokenList = tokenListAfter(self.tokenList,
                            self.chainId, client.storedTokenList,
                            Len(client.storedTokenList)),
                       ![i]._ready = TRUE]
                /\ lastInit' = [self |-> i, clientReady |-> client.ready,
                                threw |-> None,
                                parity |-> 1 - lastInit.parity]
    /\ UNCHANGED <<_instances, returned, harmony, fpc, fself, fresult,
                   routerQueries>>
    /\ UNCHANGED <<tradeVars, quoteVars>>

\* lines 120-122
ready(i) == instance[i]._ready

\* lines 98-100: undefined (None) for an address the list does not hold
getTokenByAddress(i, address) ==
    IF address \in DOMAIN instance[i].tokenList
    THEN Some(instance[i].tokenList[address])
    ELSE None

(***************************************************************************)
(* Defira.factory.                                                         *)
(***************************************************************************)
\* the factory address the router contract at `router` answers with
routerFactory(router) == "factory-of-" \o router

\* lines 135-137, 140: the call finds a cached address and returns it, or
\* queries the router contract and suspends
FactoryCall(f, i) ==
    /\ fpc[f] = "idle"
    /\ i \in Instances
    /\ fself' = [fself EXCEPT ![f] = i]
    /\ IF instance[i]._factory = None
       THEN /\ routerQueries' = [routerQueries EXCEPT ![i] = @ + 1]
            /\ fpc' = [fpc EXCEPT ![f] = "await"]
            /\ UNCHANGED fresult
       ELSE /\ fresult' = [fresult EXCEPT ![f] = instance[i]._factory]
            /\ fpc' = [fpc EXCEPT ![f] = "done"]
            /\ UNCHANGED routerQueries
    /\ UNCHANGED <<_instances, instance, returned, harmony, lastInit>>
    /\ UNCHANGED <<tradeVars, quoteVars>>

\* lines 138-140: the query resolves, the address is cached and returned
FactoryResolve(f) ==
    /\ fpc[f] = "await"
    /\ LET i == fself[f]
           address == Some(routerFactory(instance[i]._router))
       IN  /\ instance' = [instance EXCEPT ![i]._factory = address]
           /\ fresult' = [fresult EXCEPT ![f] = address]
    /\ fpc' = [fpc EXCEPT ![f] = "done"]
    /\ UNCHANGED <<_instances, returned, harmony, lastInit, fself,
                   routerQueries>>
    /\ UNCHANGED <<tradeVars, quoteVars>>

\* line 138: the query rejects; the error is not caught
FactoryReject(f) ==
    /\ fpc[f] = "await"
    /\ fpc' = [fpc EXCEPT ![f] = "failed"]
    /\ UNCHANGED <<_instances, instance, returned, harmony, lastInit, fself,
                   fresult, routerQueries>>
    /\ UNCHANGED <<tradeVars, quoteVars>>

(***************************************************************************)
(* The pool and the exchange library's best-trade search.                  *)
(***************************************************************************)
\* Token.sortsBefore(other): the order of the two addresses
AddressRank == ("0xT1" :> 1) @@ ("0xT2" :> 2)
sortsBefore(tokenA, tokenB) == AddressRank[tokenA.address] < AddressRank[tokenB.address]

\* new UniswapTokenAmount(token, amount)
UniswapTokenAmount(token, amount) == [token |-> token, raw |-> amount]

\* new Pair(tokenAmountA, tokenAmountB): the two amounts in token order
UniswapPair(tokenAmountA, tokenAmountB) ==
    IF sortsBefore(tokenAmountA.token, tokenAmountB.token)
    THEN [token0 |-> tokenAmountA.token, reserve0 |-> tokenAmountA.raw,
          token1 |-> tokenAmountB.token, reserve1 |-> tokenAmountB.raw]
    ELSE [token0 |-> tokenAmountB.token, reserve0 |-> tokenAmountB.raw,
          token1 |-> tokenAmountA.token, reserve1 |-> tokenAmountA.raw]

\* UniswapFetcher.fetchPairData(tokenA, tokenB, provider), once getReserves()
\* of the pool contract answered r
fetchPairData(tokenA, tokenB, r) ==
    LET balances == IF sortsBefore(tokenA, tokenB) THEN r ELSE <<r[2], r[1]>>
    IN  UniswapPair(UniswapTokenAmount(tokenA, balances[1]),
                    UniswapTokenAmount(tokenB, balances[2]))

involvesToken(pair, token) == token = pair.token0 \/ token = pair.token1
reserveOf(pair, token) == IF token = pair.token0 THEN pair.reserve0 ELSE pair.reserve1
otherToken(pair, token) == IF token = pair.token0 THEN pair.token1 ELSE pair.token0

\* Pair.getOutputAmount(inputAmount): the constant-product output for an
\* input, rounded down; no amount when a reserve is empty or the output is 0
getOutputAmount(pair, inputAmount) ==
    LET inputReserve == reserveOf(pair, inputAmount.token)
        outputReserve == reserveOf(pair, otherToken(pair, inputAmount.token))
        amountInWithFee == inputAmount.raw * FeeNumerator
        numerator == amountInWithFee * outputReserve
        denominator == inputReserve * FeeDenominator + amountInWithFee
    IN  IF pair.reserve0 = 0 \/ pair.reserve1 = 0
        THEN [ok |-> FALSE, error |-> "InsufficientReservesError", amount |-> None]
        ELSE IF numerator \div denominator = 0
        THEN [ok |-> FALSE, error |-> "InsufficientInputAmountError", amount |-> None]
        ELSE [ok |-> TRUE, error |-> "",
              amount |-> Some(UniswapTokenAmount(otherToken(pair, inputAmount.token),
                                                 numerator \div denominator))]

\* Pair.getInputAmount(outputAmount): the constant-product input for an
\* output, rounded up; no amount when the reserves cannot pay the output
getInputAmount(pair, outputAmount) ==
    LET outputReserve == reserveOf(pair, outputAmount.token)
        inputReserve == reserveOf(pair, otherToken(pair, outputAmount.token))
        numerator == inputReserve * outputAmount.raw * FeeDenominator
        denominator == (outputReserve - outputAmount.raw) * FeeNumerator
    IN  IF pair.reserve0 = 0 \/ pair.reserve1 = 0
           \/ outputAmount.raw >= outputReserve
        THEN [ok |-> FALSE, error |-> "InsufficientReservesError", amount |-> None]
        ELSE [ok |-> TRUE, error |-> "",
              amount |-> Some(UniswapTokenAmount(otherToken(pair, outputAmount.token),
                                                 (numerator \div denominator) + 1))]

\* new Trade(route, amount, tradeType) over one pair
UniswapTrade(pair, inputAmount, outputAmount, tradeType) ==
    [tradeType |-> tradeType, etherIn |-> FALSE, route |-> <<pair>>,
     inputToken |-> inputAmount.token, inputAmount |-> inputAmount.raw,
     outputToken |-> outputAmount.token, outputAmount |-> outputAmount.raw]

\* UniswapTrade.bestTradeExactIn(pairs, currencyAmountIn, currencyOut, options)
\* for a hop limit of 1: the direct trades, one per pair that holds both
\* tokens, has reserves and pays a positive output
RECURSIVE bestTradeExactIn(_, _, _, _)
bestTradeExactIn(pairs, currencyAmountIn, currencyOut, options) ==
    IF Len(pairs) = 0 \/ options.maxHops <= 0 THEN <<>>
    ELSE LET pair == Head(pairs)
             rest == bestTradeExactIn(Tail(pairs), currencyAmountIn, currencyOut, options)
             out == getOutputAmount(pair, currencyAmountIn)
         IN  IF involvesToken(pair, currencyAmountIn.token) /\ out.ok
                /\ out.amount[1].token = currencyOut
             THEN <<UniswapTrade(pair, currencyAmountIn, out.amount[1], "EXACT_INPUT")>>
                      \o rest
             ELSE rest

\* UniswapTrade.bestTradeExactOut(pairs, currencyIn, currencyAmountOut, options)
\* for a hop limit of 1
RECURSIVE bestTradeExactOut(_, _, _, _)
bestTradeExactOut(pairs, currencyIn, currencyAmountOut, options) ==
    IF Len(pairs) = 0 \/ options.maxHops <= 0 THEN <<>>
    ELSE LET pair == Head(pairs)
             rest == bestTradeExactOut(Tail(pairs), currencyIn, currencyAmountOut, options)
             in == getInputAmount(pair, currencyAmountOut)
         IN  IF involvesToken(pair, currencyAmountOut.token) /\ in.ok
                /\ in.amount[1].token = currencyIn
             THEN <<UniswapTrade(pair, in.amount[1], currencyAmountOut, "EXACT_OUTPUT")>>
                      \o rest
             ELSE rest

\* Price.toFixed(6) of the execution price output / input, or of its inverse:
\* the decimal division fails on a zero divisor
executionPriceToFixed(trade, inverted) ==
    IF inverted THEN trade.outputAmount # 0 ELSE trade.inputAmount # 0

(***************************************************************************)
(* estimateSellTrade and estimateBuyTrade.  Each method has one call slot; *)
(* a finished call may be followed by the next call of the method.         *)
(***************************************************************************)
EstimateMethods == {"estimateSellTrade", "estimateBuyTrade"}

NoEstimate ==
    [kind |-> "pending", trade |-> None, expectedAmount |-> None, error |-> None]
ExpectedTrade(trade, expectedAmount) ==
    [kind |-> "returned", trade |-> Some(trade),
     expectedAmount |-> Some(expectedAmount), error |-> None]
\* a message is the sequence of the literal parts and interpolated values of
\* its template
EstimateThrew(name, message) ==
    [kind |-> "threw", trade |-> None, expectedAmount |-> None,
     error |-> Some([name |-> name, message |-> message])]

\* `${object}` in a template literal, for an object without a toString of its
\* own: Object.prototype.toString
ObjectToString(object) == "[object Object]"

\* lines 214-233, after fetchPairData resolved with pair
estimateSellTradeResume(a, pair, config) ==
    LET nativeTokenAmount == UniswapTokenAmount(a.baseToken, a.amount)
        search == [fn |-> "bestTradeExactIn", pairs |-> <<pair>>,
                   amount |-> nativeTokenAmount, currency |-> a.quoteToken,
                   options |-> [maxHops |-> 1]]
        trades == bestTradeExactIn(search.pairs, search.amount, search.currency,
                                   search.options)
        slippage == getAllowedSlippage(a.allowedSlippage, config)
        expectedAmount == minimumAmountOut(trades[1], slippage.value[1])
    IN  IF Len(trades) = 0
        THEN [searches |-> <<search>>, reads |-> <<>>,
              outcome |-> EstimateThrew("UniswapishPriceError",
                  <<"priceSwapIn: no trade pair found for ",
                    ObjectToString(a.baseToken), " to ",
                    ObjectToString(a.quoteToken), ".">>)]
        ELSE IF ~executionPriceToFixed(trades[1], FALSE)
        THEN [searches |-> <<search>>, reads |-> <<>>,
              outcome |-> EstimateThrew("Error", <<"Division by zero">>)]
        ELSE IF ~slippage.ok
        THEN [searches |-> <<search>>, reads |-> <<a.allowedSlippage>>,
              outcome |-> EstimateThrew("Error", <<slippage.error>>)]
        ELSE IF ~expectedAmount.ok
        THEN [searches |-> <<search>>, reads |-> <<a.allowedSlippage>>,
              outcome |-> EstimateThrew("RangeError", <<"Division by zero">>)]
        ELSE [searches |-> <<search>>, reads |-> <<a.allowedSlippage>>,
              outcome |-> ExpectedTrade(trades[1], expectedAmount.amount)]

\* estimateBuyTrade that adjusts its trade as estimateSellTrade does, with
\* minimumAmountOut
estimateBuyTradeResume_minimumOut(a, pair, config) ==
    LET nativeTokenAmount == UniswapTokenAmount(a.baseToken, a.amount)
        search == [fn |-> "bestTradeExactOut", pairs |-> <<pair>>,
                   amount |-> nativeTokenAmount, currency |-> a.quoteToken,
                   options |-> [maxHops |-> 1]]
        trades == bestTradeExactOut(search.pairs, search.currency, search.amount,
                                    search.options)
        slippage == getAllowedSlippage(a.allowedSlippage, config)
        expectedAmount == minimumAmountOut(trades[1], slippage.value[1])
    IN  IF Len(trades) = 0
        THEN [searches |-> <<search>>, reads |-> <<>>,
              outcome |-> EstimateThrew("UniswapishPriceError",
                  <<"priceSwapOut: no trade pair found for ",
                    a.quoteToken.address, " to ", a.baseToken.address, ".">>)]
        ELSE IF ~executionPriceToFixed(trades[1], TRUE)
        THEN [searches |-> <<search>>, reads |-> <<>>,
              outcome |-> EstimateThrew("Error", <<"Division by zero">>)]
        ELSE IF ~slippage.ok
        THEN [searches |-> <<search>>, reads |-> <<a.allowedSlippage>>,
              outcome |-> EstimateThrew("Error", <<slippage.error>>)]
        ELSE IF ~expectedAmount.ok
        THEN [searches |-> <<search>>, reads |-> <<a.allowedSlippage>>,
              outcome |-> EstimateThrew("RangeError", <<"Division by zero">>)]
        ELSE [searches |-> <<search>>, reads |-> <<a.allowedSlippage>>,
              outcome |-> ExpectedTrade(trades[1], expectedAmount.amount)]

\* lines 264-284, after fetchPairData resolved with pair
estimateBuyTradeResume(a, pair, config) ==
    LET nativeTokenAmount == UniswapTokenAmount(a.baseToken, a.amount)
        search == [fn |-> "bestTradeExactOut", pairs |-> <<pair>>,
                   amount |-> nativeTokenAmount, currency |-> a.quoteToken,
                   options |-> [maxHops |-> 1]]
        trades == bestTradeExactOut(search.pairs, search.currency, search.amount,
                                    search.options)
        slippage == getAllowedSlippage(a.allowedSlippage, config)
        expectedAmount == maximumAmountIn(trades[1], slippage.value[1])
    IN  IF Len(trades) = 0
        THEN [searches |-> <<search>>, reads |-> <<>>,
              outcome |-> EstimateThrew("UniswapishPriceError",
                  <<"priceSwapOut: no trade pair found for ",
                    a.quoteToken.address, " to ", a.baseToken.address, ".">>)]
        ELSE IF ~executionPriceToFixed(trades[1], TRUE)
        THEN [searches |-> <<search>>, reads |-> <<>>,
              outcome |-> EstimateThrew("Error", <<"Division by zero">>)]
        ELSE IF ~slippage.ok
        THEN [searches |-> <<search>>, reads |-> <<a.allowedSlippage>>,
              outcome |-> EstimateThrew("Error", <<slippage.error>>)]
        ELSE IF ~expectedAmount.ok
        THEN [searches |-> <<search>>, reads |-> <<a.allowedSlippage>>,
              outcome |-> EstimateThrew("RangeError", <<"Division by zero">>)]
        ELSE [searches |-> <<search>>, reads |-> <<a.allowedSlippage>>,
              outcome |-> ExpectedTrade(trades[1], expectedAmount.amount)]

\* lines 194-212 and 246-263: the call up to its await of fetchPairData
EstimateCall(e, a) ==
    /\ epc[e] \in {"idle", "done", "failed"}
    /\ epc' = [epc EXCEPT ![e] = "fetch"]
    /\ eargs' = [eargs EXCEPT ![e] = Some(a)]
    /\ fetched' = [fetched EXCEPT ![e] = <<>>]
    /\ tradeSearches' = [tradeSearches EXCEPT ![e] = <<>>]
    /\ slippageReads' = [slippageReads EXCEPT ![e] = <<>>]
    /\ eoutcome' = [eoutcome EXCEPT ![e] = NoEstimate]
    /\ UNCHANGED <<slippageCall, reserves>>
    /\ UNCHANGED <<tradeVars, registryVars>>

\* an estimate that keeps the pair the other method fetched and prices on it
\* without a fetch of its own
FetchPairDataResolve_reusesPair(e) ==
    /\ epc[e] = "fetch"
    /\ LET a == eargs[e][1]
           other == CHOOSE o \in EstimateMethods : o # e
           reuse == fetched[other] # <<>>
           pair == IF reuse THEN fetched[other][1]
                   ELSE fetchPairData(a.quoteToken, a.baseToken, reserves)
           r == IF e = "estimateSellTrade"
                THEN estimateSellTradeResume(a, pair, allowedSlippageConfig)
                ELSE estimateBuyTradeResume(a, pair, allowedSlippageConfig)
       IN  /\ fetched' = [fetched EXCEPT ![e] = IF reuse THEN @ ELSE Append(@, pair)]
           /\ tradeSearches' = [tradeSearches EXCEPT ![e] = r.searches]
           /\ slippageReads' = [slippageReads EXCEPT ![e] = r.reads]
           /\ eoutcome' = [eoutcome EXCEPT ![e] = r.outcome]
           /\ epc' = [epc EXCEPT ![e] =
                         IF r.outcome.kind = "returned" THEN "done" ELSE "failed"]
    /\ UNCHANGED <<slippageCall, reserves, eargs>>
    /\ UNCHANGED <<tradeVars, registryVars>>

\* fetchPairData resolves with the pool's reserves of that moment, and the
\* call runs to its end
FetchPairDataResolve(e) ==
    /\ epc[e] = "fetch"
    /\ LET a == eargs[e][1]
           pair == fetchPairData(a.quoteToken, a.baseToken, reserves)
           r == IF e = "estimateSellTrade"
                THEN estimateSellTradeResume(a, pair, allowedSlippageConfig)
                ELSE estimateBuyTradeResume(a, pair, allowedSlippageConfig)
       IN  /\ fetched' = [fetched EXCEPT ![e] = Append(@, pair)]
           /\ tradeSearches' = [tradeSearches EXCEPT ![e] = r.searches]
           /\ slippageReads' = [slippageReads EXCEPT ![e] = r.reads]
           /\ eoutcome' = [eoutcome EXCEPT ![e] = r.outcome]
           /\ epc' = [epc EXCEPT ![e] =
                         IF r.outcome.kind = "returned" THEN "done" ELSE "failed"]
    /\ UNCHANGED <<slippageCall, reserves, eargs>>
    /\ UNCHANGED <<tradeVars, registryVars>>

\* fetchPairData rejects and the call rejects with its error
FetchPairDataReject(e, message) ==
    /\ epc[e] = "fetch"
    /\ epc' = [epc EXCEPT ![e] = "failed"]
    /\ eoutcome' = [eoutcome EXCEPT ![e] = EstimateThrew("Error", <<message>>)]
    /\ UNCHANGED <<slippageCall, reserves, eargs, fetched, tradeSearches,
                   slippageReads>>
    /\ UNCHANGED <<tradeVars, registryVars>>

\* a swap or a liquidity change moves the pool's reserves
Sync(r) ==
    /\ r # reserves
    /\ reserves' = r
    /\ UNCHANGED <<slippageCall, epc, eargs, fetched, tradeSearches,
                   slippageReads, eoutcome>>
    /\ UNCHANGED <<tradeVars, registryVars>>

\* a call of getAllowedSlippage(allowedSlippageStr) by itself
GetAllowedSlippageCall(allowedSlippageStr) ==
    /\ slippageCall' = Some([allowedSlippageStr |-> allowedSlippageStr,
                             result |-> getAllowedSlippage(allowedSlippageStr,
                                                           allowedSlippageConfig)])
    /\ slippageCall' # slippageCall
    /\ UNCHANGED <<reserves, epc, eargs, fetched, tradeSearches,
                   slippageReads, eoutcome>>
    /\ UNCHANGED <<tradeVars, registryVars>>

\* ---- inputs ----
\* texts of the fraction pattern, with the numbers written in them
FractionTexts ==
    {[text |-> <<"1", "/", "2">>, n |-> 1, d |-> 2],
     [text |-> <<"1", "/", "1", "0", "0">>, n |-> 1, d |-> 100],
     [text |-> <<"0", "1", "/", "1", "0">>, n |-> 1, d |-> 10],
     [text |-> <<"3", "/", "1">>, n |-> 3, d |-> 1],
     [text |-> <<"0", "/", "5">>, n |-> 0, d |-> 5],
     [text |-> <<"1", "/", "0">>, n |-> 1, d |-> 0]}
\* texts that are not of the fraction pattern
NotFractionTexts ==
    {<<"a", "/", "2">>, <<"1", "/">>, <<"1", "/", "2", "/", "3">>,
     <<"1", ".", "5", "%">>, <<>>, <<"-", "1", "/", "2">>}
\* texts of the percent pattern, with the two captured numbers and the
\* percent number written in them as a fraction
PercentTexts ==
    {[text |-> <<"1", ".", "5", "%">>, whole |-> 1, fractional |-> 5,
      percent |-> <<15, 10>>],
     [text |-> <<"0", ".", "5", "%">>, whole |-> 0, fractional |-> 5,
      percent |-> <<5, 10>>],
     [text |-> <<"1", "0", ".", "0", "%">>, whole |-> 10, fractional |-> 0,
      percent |-> <<100, 10>>],
     [text |-> <<"2", ".", "5", "0", "%">>, whole |-> 2, fractional |-> 50,
      percent |-> <<250, 100>>]}
\* texts that are not of the percent pattern
NotPercentTexts ==
    {<<"1", "5">>, <<"1", "/", "1", "0", "0">>, <<>>, <<"1", ".", "5">>}
SlippageOverrides ==
    {None} \cup {Some(t.text) : t \in FractionTexts}
           \cup {Some(t) : t \in NotFractionTexts}
AllSlippageConfigs == {t.text : t \in PercentTexts} \cup NotPercentTexts

\* the overrides of the calls that resolve slippage on the way
CallOverrides == {None, Some(<<"a", "/", "2">>)}

WONE == UniswapToken(2, "0xT1", 18, "WONE", "Wrapped ONE")
USDC == UniswapToken(2, "0xT2", 6, "USDC", "USD Coin")
PoolReserves == {<<0, 0>>, <<100, 200>>, <<1000, 500>>}
FetchErrors == {"could not detect network"}
EstimateArgs ==
    [baseToken : {WONE}, quoteToken : {USDC}, amount : {0, 1, 10, 99, 100},
     allowedSlippage : {None, Some(<<"1", "/", "1", "0", "0">>)}]
        \cup [baseToken : {USDC}, quoteToken : {WONE}, amount : {10},
              allowedSlippage : {None}]

SlippageEstimateArgs ==
    [baseToken : {WONE}, quoteToken : {USDC}, amount : {10},
     allowedSlippage : CallOverrides]
SlippageTradeArgs ==
    [wallet : {"0xA"},
     trade : {[tradeType |-> "EXACT_INPUT", etherIn |-> FALSE,
               inputAmount |-> 5, outputAmount |-> 9]},
     gasPrice : {<<1, 1>>}, ttl : {60}, gasLimit : {<<300000, 1>>},
     nonce : {None}, maxFeePerGas : {None}, maxPriorityFeePerGas : {None},
     allowedSlippage : CallOverrides]

(***************************************************************************)
(* Specifications.                                                         *)
(***************************************************************************)
InitWith(configs, r, nonces) ==
    /\ pc = [c \in Calls |-> "idle"]
    /\ args = [c \in Calls |-> None]
    /\ nonce = [c \in Calls |-> None]
    /\ tx = [c \in Calls |-> None]
    /\ outcome = [c \in Calls |-> NoOutcome]
    /\ getNonceCalls = [c \in Calls |-> <<>>]
    /\ contractCalls = [c \in Calls |-> <<>>]
    /\ commitCalls = [c \in Calls |-> <<>>]
    /\ acquired = <<>>
    /\ nextNonce \in [Wallets -> nonces]
    /\ allowedSlippageConfig \in configs
    /\ _instances = None
    /\ instance = <<>>
    /\ returned = [p \in InstanceArgs |-> {}]
    /\ harmony = [n \in Networks |->
                     [ready |-> FALSE, storedTokenList |-> <<>>,
                      chainId |-> IF n = "testnet" THEN 2 ELSE 1]]
    /\ lastInit = [self |-> 0, clientReady |-> FALSE, threw |-> None, parity |-> 0]
    /\ fpc = [f \in FactoryCalls |-> "idle"]
    /\ fself = [f \in FactoryCalls |-> 0]
    /\ fresult = [f \in FactoryCalls |-> None]
    /\ routerQueries = <<>>
    /\ slippageCall = None
    /\ reserves = r
    /\ epc = [e \in EstimateMethods |-> "idle"]
    /\ eargs = [e \in EstimateMethods |-> None]
    /\ fetched = [e \in EstimateMethods |-> <<>>]
    /\ tradeSearches = [e \in EstimateMethods |-> <<>>]
    /\ slippageReads = [e \in EstimateMethods |-> <<>>]
    /\ eoutcome = [e \in EstimateMethods |-> NoEstimate]

\* the state after construction, with a configured default slippage
Init == InitWith(SlippageConfigs, <<0, 0>>, 0..MaxInitialNonce)

ExecuteTradeStep(c) ==
    \/ GetNonceResolve(c)
    \/ \E e \in NonceErrors : GetNonceReject(c, e)
    \/ SubmitResolve(c)
    \/ \E e \in SubmitErrors : SubmitReject(c, e)
    \/ CommitNonceResolve(c)
    \/ \E e \in NonceErrors : CommitNonceReject(c, e)

\* logically concurrent executeTrade calls
NextTrade ==
    \E c \in Calls :
        \/ \E a \in ArgsTrade : ExecuteTradeCall(c, a)
        \/ ExecuteTradeStep(c)

SpecTrade == Init /\ [][NextTrade]_vars

\* one executeTrade call, over every kind of argument
NextFee ==
    \/ \E a \in ArgsFee : ExecuteTradeCall(1, a)
    \/ ExecuteTradeStep(1)

SpecFee == Init /\ [][NextFee]_vars

\* the registry, the chain clients and init()
NextRegistry ==
    \/ \E p \in InstanceArgs : GetInstance(p[1], p[2])
    \/ \E n \in Networks : HarmonyLoadTokens(n) \/ HarmonyReady(n)
    \/ \E i \in Instances : InitCall(i)

SpecRegistry == Init /\ [][NextRegistry]_vars

\* the registry and overlapping factory() calls
NextFactory ==
    \/ \E p \in InstanceArgs : GetInstance(p[1], p[2])
    \/ \E f \in FactoryCalls :
           \/ \E i \in Instances : FactoryCall(f, i)
           \/ FactoryResolve(f)
           \/ FactoryReject(f)

SpecFactory == Init /\ [][NextFactory]_vars

\* the two estimates over a pool whose reserves move
NextEstimate ==
    \/ \E e \in EstimateMethods, a \in EstimateArgs : EstimateCall(e, a)
    \/ \E e \in EstimateMethods : FetchPairDataResolve(e)
    \/ \E e \in EstimateMethods, m \in FetchErrors : FetchPairDataReject(e, m)
    \/ \E r \in PoolReserves : Sync(r)

SpecEstimate == Init /\ [][NextEstimate]_vars

\* slippage resolution by itself and inside one call of each operation that
\* resolves it, over every configured default
InitSlippage == InitWith(AllSlippageConfigs, <<100, 200>>, {0})

NextSlippage ==
    \/ \E str \in SlippageOverrides : GetAllowedSlippageCall(str)
    \/ \E e \in EstimateMethods, a \in SlippageEstimateArgs : EstimateCall(e, a)
    \/ \E e \in EstimateMethods : FetchPairDataResolve(e)
    \/ \E a \in SlippageTradeArgs : ExecuteTradeCall(1, a)
    \/ GetNonceResolve(1)
    \/ SubmitResolve(1)
    \/ CommitNonceResolve(1)

SpecSlippage == InitSlippage /\ [][NextSlippage]_vars

\* every operation of one connector instance: init (any number of times),
\* overlapping factory() calls, both estimates and executeTrade
NextConnector ==
    \/ GetInstance("harmony", "testnet")
    \/ HarmonyLoadTokens("testnet")
    \/ HarmonyReady("testnet")
    \/ \E i \in Instances : InitCall(i)
    \/ \E f \in FactoryCalls :
           \/ \E i \in Instances : FactoryCall(f, i)
           \/ FactoryResolve(f)
           \/ FactoryReject(f)
    \/ \E e \in EstimateMethods, a \in SlippageEstimateArgs : EstimateCall(e, a)
    \/ \E e \in EstimateMethods : FetchPairDataResolve(e)
    \/ \E a \in SlippageTradeArgs : ExecuteTradeCall(1, a)
    \/ GetNonceResolve(1)
    \/ SubmitResolve(1)
    \/ CommitNonceResolve(1)

InitConnector == InitWith({<<"1", ".", "5", "%">>}, <<100, 200>>, {0})

SpecConnector == InitConnector /\ [][NextConnector]_vars

Next ==
    NextConnector \/ NextTrade \/ NextFee \/ NextRegistry \/ NextFactory \/ NextEstimate
        \/ NextSlippage

Spec == Init /\ [][Next]_vars

(***************************************************************************)
(* Properties of executeTrade.                                             *)
(***************************************************************************)
Started(c) == args[c] # None
Implicit(c) == Started(c) /\ args[c][1].nonce = None
Finished(c) == pc[c] \in {"done", "failed"}
InFlight(c) == pc[c] \in {"getNonce", "submit", "commit"}
WalletOf(c) == args[c][1].wallet
\* the contract accepted the call's transaction
Submitted(c) == contractCalls[c] # <<>> /\ contractCalls[c][1].ok
\* the contract rejected the call's transaction
SubmissionFailed(c) == contractCalls[c] # <<>> /\ ~contractCalls[c][1].ok
\* c1's getNonce returned before c2's
AcquiredBefore(c1, c2) ==
    \E i, j \in 1..Len(acquired) : i < j /\ acquired[i] = c1 /\ acquired[j] = c2

NonceProtocol(c, finishedGetNonceCalls) ==
    /\ Len(getNonceCalls[c]) <= 1
    /\ Finished(c) => Len(getNonceCalls[c]) = finishedGetNonceCalls
    /\ Len(contractCalls[c]) <= 1
    /\ Len(commitCalls[c]) <= 1
    \* a commit is made only once the submission has returned successfully,
    \* for the wallet's address and the nonce getNonce returned
    /\ commitCalls[c] # <<>> =>
           /\ Submitted(c)
           /\ getNonceCalls[c] # <<>> /\ getNonceCalls[c][1].ok
           /\ commitCalls[c][1].address = WalletOf(c)
           /\ getNonceCalls[c][1].address = WalletOf(c)
           /\ commitCalls[c][1].nonce = getNonceCalls[c][1].returned
           /\ contractCalls[c][1].options.nonce = getNonceCalls[c][1].returned
    \* and it is made whenever the submission succeeded
    /\ (Finished(c) /\ Submitted(c)) => Len(commitCalls[c]) = 1

\* the call got past slippage resolution and the call-parameter builder
ParametersDerived(c) == swapParameters(args[c][1], allowedSlippageConfig).ok

\* C2 (as claimed): every executeTrade call made without an explicit nonce
\* calls getNonce exactly once, and commits exactly the returned nonce
\* exactly once, after a successful submission.
C2_EveryCallAcquiresOnce ==
    \A c \in Calls : Implicit(c) => NonceProtocol(c, 1)

\* C2 (amended): an executeTrade call made without an explicit nonce calls
\* getNonce exactly once if its call parameters could be derived and not at
\* all otherwise; if its submission succeeds it calls commitNonce exactly
\* once, with the wallet's address and the nonce getNonce returned, and only
\* after the submission has returned successfully.
C2_AcquireOnceCommitOnce ==
    \A c \in Calls :
        Implicit(c) =>
            NonceProtocol(c, IF ParametersDerived(c) THEN 1 ELSE 0)

C2_Witness ==
    \E c \in Calls :
        /\ Implicit(c) /\ pc[c] = "done"
        /\ Len(getNonceCalls[c]) = 1
        /\ Len(commitCalls[c]) = 1
        /\ commitCalls[c][1].nonce = getNonceCalls[c][1].returned

\* C3: a call whose contract submission failed has made no commitNonce
\* call and ends with the submission's error as its own; no step of a call
\* other than the commit that follows a successful submission changes the
\* NonceCoordinator's next nonce of any wallet.
C3_FailedSubmissionKeepsWatermark ==
    /\ [](\A c \in Calls :
             SubmissionFailed(c) =>
                 /\ commitCalls[c] = <<>>
                 /\ pc[c] = "failed"
                 /\ outcome[c] = Threw(contractCalls[c][1].error))
    /\ [][\A c \in Calls :
             (pc'[c] # pc[c] /\ ~(pc[c] = "commit" /\ Submitted(c)))
                 => nextNonce' = nextNonce]_vars

C3_Witness ==
    \E c \in Calls :
        /\ Implicit(c) /\ SubmissionFailed(c)
        /\ getNonceCalls[c] # <<>>
        /\ nextNonce[WalletOf(c)] = getNonceCalls[c][1].returned
        /\ outcome[c].kind = "threw"

\* the nonces carried by the transactions submitted for wallet w
SubmittedNonces(w) ==
    {contractCalls[c][1].options.nonce :
        c \in {d \in Calls : Started(d) /\ WalletOf(d) = w /\ Submitted(d)}}

\* the first nonce getNonce returned for wallet w
FirstIssued(w) ==
    LET i == CHOOSE k \in 1..Len(acquired) :
                 /\ WalletOf(acquired[k]) = w
                 /\ \A j \in 1..(k - 1) : WalletOf(acquired[j]) # w
    IN  getNonceCalls[acquired[i]][1].returned

OnlyImplicitCalls(w) ==
    \A c \in Calls : (Started(c) /\ WalletOf(c) = w) => Implicit(c)

IsNearestInteger(n, x) ==
    LET d == n * x[2] - x[1]
    IN  2 * (IF d < 0 THEN -d ELSE d) <= x[2]

\* C5: a submission made with neither maxFeePerGas nor maxPriorityFeePerGas
\* carries gasPrice, the integer string of gasPriceGwei * 10^9, and no
\* fee-per-gas field; a submission made with either of them carries both
\* fee-per-gas fields as given and no gasPrice; both carry the gas limit, the
\* value of the call parameters and the nonce.
C5_FeeStrategyExclusive ==
    \A c \in Calls :
        \A k \in 1..Len(contractCalls[c]) :
            LET a == args[c][1]
                o == contractCalls[c][k].options
                wei == <<a.gasPrice[1] * GweiToWei, a.gasPrice[2]>>
            IN  /\ IF a.maxFeePerGas = None /\ a.maxPriorityFeePerGas = None
                   THEN /\ DOMAIN o = {"gasPrice", "gasLimit", "value", "nonce"}
                        /\ IsNearestInteger(o.gasPrice, wei)
                   ELSE /\ DOMAIN o = {"maxFeePerGas", "maxPriorityFeePerGas",
                                       "gasLimit", "value", "nonce"}
                        /\ o.maxFeePerGas = a.maxFeePerGas
                        /\ o.maxPriorityFeePerGas = a.maxPriorityFeePerGas
                /\ IsNearestInteger(o.gasLimit, a.gasLimit)
                /\ o.value = (IF ~a.trade.etherIn THEN 0
                              ELSE IF a.trade.tradeType = "EXACT_INPUT"
                              THEN a.trade.inputAmount
                              ELSE contractCalls[c][k].args[1])
                /\ a.trade.tradeType = "EXACT_OUTPUT"
                       => contractCalls[c][k].args[1] >= a.trade.inputAmount
                /\ o.nonce = nonce[c][1]
                /\ a.nonce # None => o.nonce = a.nonce[1]

C5_Witness ==
    \E c \in Calls :
        /\ Submitted(c)
        /\ args[c][1].maxFeePerGas = None
        /\ args[c][1].maxPriorityFeePerGas = None
        /\ args[c][1].gasPrice = <<2, 3>>
        /\ contractCalls[c][1].options.gasPrice = 666666667

\* C6: a call that ends in failure has submitted no transaction, and a
\* finished call that has submitted a transaction returned its handle.
C6_NoPartialSuccess ==
    \A c \in Calls :
        /\ outcome[c].kind = "threw" => ~Submitted(c)
        /\ (Finished(c) /\ Submitted(c)) => outcome[c] = Returned(tx[c][1])

(***************************************************************************)
(* Properties of the registry, init and factory.                           *)
(***************************************************************************)
\* C7: every getInstance call with one (chain, network) returns the same
\* instance; calls with one chain and different networks return different
\* instances; an entry of the registry is never removed or replaced, nor is
\* an instance's chain or chain client.
C7_SameArgumentsSameInstance ==
    /\ [](/\ \A p \in InstanceArgs : Cardinality(returned[p]) <= 1
          /\ \A p, q \in InstanceArgs :
                 (p[1] = q[1] /\ p[2] # q[2])
                     => returned[p] \cap returned[q] = {})
    /\ [][_instances # None =>
             /\ \A k \in DOMAIN _instances[1] :
                    /\ k \in DOMAIN _instances'[1]
                    /\ _instances'[1][k] = _instances[1][k]
             /\ \A i \in Instances :
                    /\ i \in 1..Len(instance')
                    /\ instance'[i]._chain = instance[i]._chain
                    /\ instance'[i].harmony = instance[i].harmony]_vars

C7_Witness ==
    /\ returned[<<"harmony", "testnet">>] # {}
    /\ returned[<<"harmony", "estnet">>] # {}
    /\ returned[<<"harmony", "testnet">>] # returned[<<"harmony", "estnet">>]
    /\ Len(instance) = 2

\* C8: two different (chain, network) pairs never get the same instance,
\* and the instance a pair gets was constructed with that chain and network.
C8_OneInstancePerPair ==
    /\ \A p, q \in InstanceArgs :
           p # q => returned[p] \cap returned[q] = {}
    /\ \A p \in InstanceArgs :
           \A i \in returned[p] :
               /\ instance[i]._chain = p[1]
               /\ instance[i].harmony = p[2]

\* C9: the router contract of an instance is queried for its factory
\* address at most once, and every factory() call on the instance that has
\* returned, returned the one cached address.
C9_FactoryQueriedAtMostOnce ==
    /\ \A i \in Instances : routerQueries[i] <= 1
    /\ \A f \in FactoryCalls :
           fpc[f] = "done" =>
               /\ fresult[f] # None
               /\ fresult[f] = instance[fself[f]]._factory

\* C10: an init() call made while the chain client reports not ready throws
\* InitializationError with the service-uninitialized code, and leaves the
\* instance not ready and its token list as it was, whatever the chain name.
C10_InitRequiresReadyClient ==
    [][(lastInit' # lastInit /\ ~lastInit'.clientReady) =>
           /\ lastInit'.threw = Some(InitializationError)
           /\ ~instance'[lastInit'.self]._ready
           /\ instance'[lastInit'.self].tokenList
                  = instance[lastInit'.self].tokenList]_vars

(***************************************************************************)
(* Properties of init, slippage resolution and the estimates.              *)
(***************************************************************************)
\* the init() call of this step returned (it did not throw)
InitSucceeded == lastInit' # lastInit /\ lastInit'.threw = None

\* the token list holds a token at each address of the stored list
HoldsStoredList(tokenList, stored) ==
    \A k \in 1..Len(stored) :
        /\ stored[k].address \in DOMAIN tokenList
        /\ tokenList[stored[k].address].address = stored[k].address

\* C11: ready() is false on a new instance; it becomes true only in a step
\* in which an init() call on that instance returns; when an init() call
\* returns, the token list holds an entry at every address of the client's
\* stored token list of that moment, and no entry is ever removed; once
\* ready() is true it stays true.
C11_ReadyOnlyAfterInit ==
    [][\A i \in 1..Len(instance') :
           /\ i \notin Instances => ~instance'[i]._ready
           /\ i \in Instances =>
                  /\ instance[i]._ready => instance'[i]._ready
                  /\ DOMAIN instance[i].tokenList \subseteq DOMAIN instance'[i].tokenList
                  /\ (~instance[i]._ready /\ instance'[i]._ready) =>
                         (InitSucceeded /\ lastInit'.self = i)
                  /\ (InitSucceeded /\ lastInit'.self = i) =>
                         /\ instance'[i]._ready
                         /\ HoldsStoredList(instance'[i].tokenList,
                                harmony[instance[i].harmony].storedTokenList)]_vars

\* a ready instance whose token list holds the two addresses of its client's
\* stored list, next to an instance that is not ready
C11_Witness ==
    \E i, j \in Instances :
        /\ ready(i) /\ ~ready(j)
        /\ lastInit.self = i /\ lastInit.threw = None
        /\ DOMAIN instance[i].tokenList = {"0xT1", "0xT2"}
        /\ getTokenByAddress(i, "0xT1") # None

\* C12: for every override text "N/D" with D # 0, getAllowedSlippage returns
\* the tolerance N/D (numerator N, denominator D), whatever the configured
\* default is, a malformed one included.
C12_OverrideFractionIsExact ==
    \A f \in FractionTexts :
        (/\ slippageCall # None
         /\ slippageCall[1].allowedSlippageStr = Some(f.text)
         /\ f.d # 0)
            => /\ slippageCall[1].result.ok
               /\ slippageCall[1].result.value
                      = Some([numerator |-> f.n, denominator |-> f.d])

\* the override "01/10" resolved to 1/10 under a malformed configured default
C12_Witness ==
    /\ allowedSlippageConfig \in NotPercentTexts
    /\ slippageCall # None
    /\ slippageCall[1].allowedSlippageStr = Some(<<"0", "1", "/", "1", "0">>)
    /\ slippageCall[1].result.value = Some([numerator |-> 1, denominator |-> 10])

\* the override is absent or is not a fraction text
NoValidOverride(allowedSlippageStr) ==
    \/ allowedSlippageStr = None
    \/ \E t \in NotFractionTexts : allowedSlippageStr = Some(t)

\* C13: when the configured default is not of the percent pattern,
\* getAllowedSlippage without a valid override fails with the
\* malformed-configuration error and returns no tolerance; estimateSellTrade
\* and estimateBuyTrade, when they come to resolve slippage, and executeTrade
\* fail with that same error and return nothing.
C13_MalformedConfigFails ==
    allowedSlippageConfig \in NotPercentTexts =>
        /\ (slippageCall # None
               /\ NoValidOverride(slippageCall[1].allowedSlippageStr))
              => /\ ~slippageCall[1].result.ok
                 /\ slippageCall[1].result.value = None
                 /\ slippageCall[1].result.error = MalformedSlippageError
        /\ \A e \in EstimateMethods :
               (slippageReads[e] # <<>> /\ NoValidOverride(slippageReads[e][1]))
                  => /\ epc[e] = "failed"
                     /\ eoutcome[e] = EstimateThrew("Error", <<MalformedSlippageError>>)
        /\ \A c \in Calls :
               (Started(c) /\ NoValidOverride(args[c][1].allowedSlippage))
                  => /\ pc[c] = "failed"
                     /\ outcome[c] = Threw(MalformedSlippageError)
                     /\ contractCalls[c] = <<>>

\* under the configured default "15", getAllowedSlippage(), both estimates
\* with a pool that trades, and executeTrade have failed with the error
C13_Witness ==
    /\ allowedSlippageConfig = <<"1", "5">>
    /\ slippageCall # None
    /\ slippageCall[1].allowedSlippageStr = None
    /\ ~slippageCall[1].result.ok
    /\ \A e \in EstimateMethods :
           /\ Len(tradeSearches[e]) = 1
           /\ slippageReads[e] # <<>>
           /\ eoutcome[e].kind = "threw"
    /\ outcome[1] = Threw(MalformedSlippageError)

\* C14: for every configured default of the percent pattern,
\* getAllowedSlippage without an override returns a tolerance equal to the
\* percent number written in the text divided by 100.
C14_ConfiguredPercentOverHundred ==
    \A t \in PercentTexts :
        (/\ slippageCall # None
         /\ slippageCall[1].allowedSlippageStr = None
         /\ allowedSlippageConfig = t.text)
            => /\ slippageCall[1].result.ok
               /\ LET tolerance == slippageCall[1].result.value[1]
                  IN  /\ tolerance.denominator # 0
                      /\ tolerance.numerator * t.percent[2] * 100
                             = t.percent[1] * tolerance.denominator

\* the candidate list a recorded best-trade search returns
SearchResult(search) ==
    IF search.fn = "bestTradeExactIn"
    THEN bestTradeExactIn(search.pairs, search.amount, search.currency,
                          search.options)
    ELSE bestTradeExactOut(search.pairs, search.currency, search.amount,
                           search.options)

\* the message holds the text
Names(message, text) == \E k \in 1..Len(message) : message[k] = text

\* C15: when the best-trade search returns an empty list, the estimate fails
\* with the price error, whose message names the addresses of both tokens;
\* it returns no ExpectedTrade and does not resolve slippage.
C15_EmptyTradeListIsPriceError ==
    \A e \in EstimateMethods :
        (tradeSearches[e] # <<>> /\ SearchResult(tradeSearches[e][1]) = <<>>)
            => /\ epc[e] = "failed"
               /\ eoutcome[e].kind = "threw"
               /\ eoutcome[e].trade = None
               /\ eoutcome[e].expectedAmount = None
               /\ slippageReads[e] = <<>>
               /\ eoutcome[e].error[1].name = "UniswapishPriceError"
               /\ Names(eoutcome[e].error[1].message, eargs[e][1].baseToken.address)
               /\ Names(eoutcome[e].error[1].message, eargs[e][1].quoteToken.address)

\* a returned sell estimate and a returned buy estimate of the same amount of
\* the same base token, priced on the same pool state under one tolerance
SamePoolSameAmount ==
    /\ epc["estimateSellTrade"] = "done"
    /\ epc["estimateBuyTrade"] = "done"
    /\ eargs["estimateSellTrade"] = eargs["estimateBuyTrade"]
    /\ fetched["estimateSellTrade"] = fetched["estimateBuyTrade"]

\* C16: for one pool state and one tolerance, the quote obtained by selling
\* an amount of base is at most the quote required to buy that amount of
\* base, both for the slippage-adjusted expected amounts (minimum out against
\* maximum in) and for the unadjusted output and input of the two trades.
C16_SellQuoteAtMostBuyQuote ==
    SamePoolSameAmount =>
        LET sell == eoutcome["estimateSellTrade"]
            buy == eoutcome["estimateBuyTrade"]
        IN  /\ sell.expectedAmount[1] <= buy.expectedAmount[1]
            /\ sell.trade[1].outputAmount <= buy.trade[1].inputAmount
            /\ sell.trade[1].outputToken = buy.trade[1].inputToken
            /\ sell.trade[1].inputAmount = buy.trade[1].outputAmount

\* 10 WONE against the pool of 100 WONE and 200 USDC under the tolerance
\* 1/100: selling pays 18 (at least 17), buying costs 23 (at most 23)
C16_Witness ==
    /\ SamePoolSameAmount
    /\ eargs["estimateSellTrade"][1].amount = 10
    /\ eargs["estimateSellTrade"][1].allowedSlippage # None
    /\ eoutcome["estimateSellTrade"].trade[1].route[1].reserve0 = 100
    /\ eoutcome["estimateSellTrade"].trade[1].outputAmount = 18
    /\ eoutcome["estimateSellTrade"].expectedAmount = Some(17)
    /\ eoutcome["estimateBuyTrade"].trade[1].inputAmount = 23
    /\ eoutcome["estimateBuyTrade"].expectedAmount = Some(23)

\* C17: a call given an explicit nonce never calls getNonce; the transaction
\* it submits carries exactly that nonce; and when the submission succeeded
\* it commits exactly that nonce, so that a successful call has committed
\* the nonce its transaction carries.
C17_ExplicitNonceIsUsed ==
    \A c \in Calls :
        (Started(c) /\ ~Implicit(c)) =>
            LET supplied == args[c][1].nonce[1]
            IN  /\ getNonceCalls[c] = <<>>
                /\ \A k \in 1..Len(contractCalls[c]) :
                       contractCalls[c][k].options.nonce = supplied
                /\ \A k \in 1..Len(commitCalls[c]) :
                       /\ commitCalls[c][k].nonce = supplied
                       /\ commitCalls[c][k].address = WalletOf(c)
                /\ commitCalls[c] # <<>> => Submitted(c)
                /\ pc[c] = "done" =>
                       /\ Len(commitCalls[c]) = 1
                       /\ outcome[c].tx[1].nonce = commitCalls[c][1].nonce

\* a call given the nonce 0 has returned a transaction carrying 0 and has
\* committed 0
C17_Witness ==
    \E c \in Calls :
        /\ Started(c)
        /\ args[c][1].nonce = Some(0)
        /\ pc[c] = "done"
        /\ outcome[c].tx[1].nonce = 0
        /\ commitCalls[c] = <<[address |-> WalletOf(c), nonce |-> 0, ok |-> TRUE]>>

\* the slippage-adjusted amount the method takes from its trade
AdjustedAmount(e, trade, tolerance) ==
    IF e = "estimateSellTrade"
    THEN minimumAmountOut(trade, tolerance)
    ELSE maximumAmountIn(trade, tolerance)

\* C18: an estimate call fetches the pair exactly once, at most once if it
\* fails, and the pair it prices on is the pool's state at that fetch, not
\* one kept from an earlier call; the ExpectedTrade it returns holds the first
\* trade of the one best-trade search it made, a search over exactly that one
\* pair with a hop limit of 1 (exact-in for a sell, exact-out for a buy), and
\* the trade's minimum amount out (sell) or maximum amount in (buy) under the
\* resolved tolerance.
C18_ExpectedTradeFromOneFreshPair ==
    /\ [](\A e \in EstimateMethods :
             /\ Len(fetched[e]) <= 1
             /\ Len(tradeSearches[e]) <= 1
             /\ tradeSearches[e] # <<>> =>
                    LET search == tradeSearches[e][1]
                    IN  /\ Len(fetched[e]) = 1
                        /\ search.pairs = <<fetched[e][1]>>
                        /\ search.options.maxHops = 1
                        /\ search.fn = (IF e = "estimateSellTrade"
                                        THEN "bestTradeExactIn"
                                        ELSE "bestTradeExactOut")
                        /\ search.amount
                               = UniswapTokenAmount(eargs[e][1].baseToken,
                                                    eargs[e][1].amount)
                        /\ search.currency = eargs[e][1].quoteToken
             /\ epc[e] = "done" =>
                    LET trade == eoutcome[e].trade[1]
                        tolerance == getAllowedSlippage(eargs[e][1].allowedSlippage,
                                         allowedSlippageConfig).value[1]
                    IN  /\ tradeSearches[e] # <<>>
                        /\ trade = SearchResult(tradeSearches[e][1])[1]
                        /\ trade.route = <<fetched[e][1]>>
                        /\ trade.tradeType = (IF e = "estimateSellTrade"
                                              THEN "EXACT_INPUT"
                                              ELSE "EXACT_OUTPUT")
                        /\ eoutcome[e].expectedAmount
                               = Some(AdjustedAmount(e, trade, tolerance).amount))
    /\ [][\A e \in EstimateMethods :
             (epc[e] = "fetch" /\ epc'[e] = "done") =>
                 fetched'[e] = <<fetchPairData(eargs[e][1].quoteToken,
                                               eargs[e][1].baseToken, reserves)>>]_vars

\* a sell estimate priced on the pool 100/200 and, after the reserves moved,
\* a buy estimate priced on the pool 1000/500
C18_Witness ==
    /\ epc["estimateSellTrade"] = "done"
    /\ epc["estimateBuyTrade"] = "done"
    /\ eargs["estimateSellTrade"] = eargs["estimateBuyTrade"]
    /\ eoutcome["estimateSellTrade"].trade[1].route[1].reserve0 = 100
    /\ eoutcome["estimateBuyTrade"].trade[1].route[1].reserve0 = 1000
    /\ reserves = <<1000, 500>>
    /\ eoutcome["estimateBuyTrade"].expectedAmount[1]
           > eoutcome["estimateBuyTrade"].trade[1].inputAmount

\* C19: over any sequence of an instance's operations, the token list is
\* written by one operation at most, the first init() call that returns, and
\* the cached factory address by one operation at most, the first factory()
\* call; every other step leaves both as they are.
C19_TokenListAndFactoryWrittenOnce ==
    [][\A i \in Instances :
           \* the loop of init() that assigns the entries runs in the first
           \* init() call that returns, and in no later one
           /\ (InitSucceeded /\ lastInit'.self = i
                  /\ harmony[instance[i].harmony].storedTokenList # <<>>)
                 => ~instance[i]._ready
           /\ instance'[i].tokenList # instance[i].tokenList
                 => (InitSucceeded /\ lastInit'.self = i /\ ~instance[i]._ready)
           \* the assignment of the factory address happens while nothing is
           \* cached, and in no later step
           /\ \A f \in FactoryCalls :
                  (fself[f] = i /\ fpc[f] = "await" /\ fpc'[f] = "done")
                      => instance[i]._factory = None
           /\ instance'[i]._factory # instance[i]._factory
                 => \E f \in FactoryCalls :
                        /\ fself[f] = i /\ fpc[f] = "await" /\ fpc'[f] = "done"
                        /\ instance[i]._factory = None]_vars

\* C20: executeTrade resolves the slippage and derives the call parameters
\* before it acquires a nonce or submits: a call in which either of the two
\* fails ends at once with that error, has called neither getNonce nor the
\* contract nor commitNonce, and the step leaves the NonceCoordinator's state
\* as it was; a call that did call getNonce or the contract had its
\* parameters derived.
C20_ParametersBeforeNonce ==
    /\ [](\A c \in Calls :
             (Started(c) /\ ~ParametersDerived(c)) =>
                 /\ pc[c] = "failed"
                 /\ outcome[c].kind = "threw"
                 /\ outcome[c].error
                        \in {MalformedSlippageError, "Invariant failed: TTL",
                             "Division by zero"}
                 /\ getNonceCalls[c] = <<>>
                 /\ contractCalls[c] = <<>>
                 /\ commitCalls[c] = <<>>
                 /\ nonce[c] = None /\ tx[c] = None)
    /\ [][\A c \in Calls :
             (pc[c] = "idle" /\ pc'[c] = "failed") =>
                 /\ ~ParametersDerived(c)'
                 /\ nextNonce' = nextNonce
                 /\ acquired' = acquired]_vars

\* a call without a nonce failed in the call-parameter builder (ttl 0) under
\* a well-formed configured slippage
C20_Witness ==
    \E c \in Calls :
        /\ Implicit(c)
        /\ args[c][1].ttl = 0
        /\ args[c][1].allowedSlippage = Some(<<"1", "/", "2">>)
        /\ getAllowedSlippage(args[c][1].allowedSlippage, allowedSlippageConfig).ok
        /\ pc[c] = "failed"
        /\ outcome[c] = Threw("Invariant failed: TTL")
        /\ getNonceCalls[c] = <<>>

====
